---- MODULE Spec2Model ----
(***************************************************************************)
(* Model of the my_url_monitor component (src/__init__.py).                *)
(*                                                                         *)
(* async_setup builds one URLMonitorData and starts async_update as a      *)
(* task.  async_update runs _check_urls under a 10 s timeout and, when     *)
(* that returns, registers a recurring timer that runs async_update every  *)
(* hour.  Coroutines run on one event loop: a step of the model is the     *)
(* code between two awaits of one coroutine, and the awaits of _check_urls *)
(* are the GET (line 88), the release of the response (exit of the         *)
(* `async with` of line 88) and the close of the session (exit of the      *)
(* `async with` of line 85).                                               *)
(*                                                                         *)
(* Time is in seconds since async_setup.  Timers and the cycle timeout     *)
(* fire when they are due.                                                 *)
(***************************************************************************)
EXTENDS Integers, Sequences, FiniteSets, TLC

(* ---- bounds of the model ---- *)
MaxTargets == 2
MaxCycles == 4

(* ---- constants of the program ---- *)
CycleTimeout == 10
Interval == 3600
datetime_min == -1

(* The clock is observed every Quantum seconds while a cycle runs. *)
Quantum == CycleTimeout \div 2

(* What a GET can answer, and what a failed connection can say. *)
StatusCodes == {200, 404, 500}
ErrorDescriptions == {"Cannot connect to host"}

VARIABLES
    names,          \* config[DOMAIN][CONF_NAME]
    urls,           \* config[DOMAIN][CONF_URL]
    hass_data,      \* TRUE once hass.data[DOMAIN] holds the URLMonitorData
    states,         \* URLMonitorData.states
    status,         \* URLMonitorData.status
    last_updated,   \* URLMonitorData.last_updated
    tasks,          \* the executions of async_update that have not ended
    timers,         \* the due time of every async_track_time_interval listener
    now,            \* the clock
    cycles,         \* executions of async_update started so far
    completed,      \* executions of async_update that returned
    raised,         \* executions of async_update that ended by an exception
    last_end,       \* when the execution of async_update that ended last ended
    event           \* the step taken last

vars == <<names, urls, hass_data, states, status, last_updated, tasks, timers,
          now, cycles, completed, raised, last_end, event>>

Min(S) == CHOOSE x \in S : \A y \in S : x <= y

SetAt(seq, i, v) == [seq EXCEPT ![i] = v]

(* ---- records kept for the run ---- *)
NoTask == [id |-> 0, start |-> 0, i |-> 0, pc |-> "none", got |-> <<>>, kept |-> <<>>]
NoOutcome == [kind |-> "none", code |-> 0, desc |-> ""]

Record(j) == [state |-> states[j], status |-> status[j], last_updated |-> last_updated[j]]

Ev(kind, t, out) == [kind |-> kind, task |-> t, outcome |-> out]

(* ---- URLMonitorData.__init__ ---- *)
(* __init__ with states sized by names instead of urls. *)
InitialStatesByNames(nm, ur) == [k \in 1..Len(nm) |-> "Unknown"]

InitialStates(nm, ur) == [k \in 1..Len(ur) |-> "Unknown"]
InitialStatus(nm, ur) == [k \in 1..Len(ur) |-> ""]
InitialLastUpdated(nm, ur) == [k \in 1..Len(ur) |-> datetime_min]

(* ---- URLMonitorData.sensors and URLMonitor ---- *)
sensors == 1..Len(urls)
name(i) == "URL Monitor " \o ToString(i)
state(i) == states[i]
icon(i) == IF states[i] = "Online" THEN "mdi:link" ELSE "mdi:link-off"
extra_state_attributes(i) ==
    [URL |-> urls[i], Status |-> status[i], LastUpdated |-> last_updated[i]]

(* ---- the classification of _check_urls ---- *)
(* Line 89 taking every code below 500 for a success. *)
ResponseStateBelow500(code) == IF code < 500 THEN "Online" ELSE "Offline"
(* Lines 91-94 with the status text of line 94 in both branches. *)
ResponseStatusAlwaysHttp(code) == "HTTP " \o ToString(code)
(* Line 95 storing the time the cycle started. *)
datetime_at_start(t) == t.start

(* Line 93 writing the initial value back for a server error. *)
ResponseStateUnknownOn5xx(code) ==
    IF code = 200 THEN "Online" ELSE IF code < 500 THEN "Offline" ELSE "Unknown"

ResponseState(code) == IF code = 200 THEN "Online" ELSE "Offline"
ResponseStatus(code) == IF code = 200 THEN "OK" ELSE "HTTP " \o ToString(code)
datetime_now(t) == now

(* The loop of line 86 probing the same target again. *)
AfterTargetRepeat(t) == [t EXCEPT !.pc = "get"]

(* The position after target i of the loop of line 86. *)
AfterTarget(t) ==
    IF t.i < Len(urls) THEN [t EXCEPT !.i = t.i + 1, !.pc = "get"]
    ELSE [t EXCEPT !.pc = "close"]

(* The handlers without their lines 99 and 103. *)
StampOnErrorOmitted(lu, i, t) == lu

(* What the handlers of lines 96-99 and 100-103 store as the time. *)
StampOnError(lu, i, t) == SetAt(lu, i, datetime_now(t))

(* A new execution of async_update: it enters the timeout of line 79 and the
   session of line 85, and waits for the first GET (or, without urls, for the
   session to close).  Two fields only observe the run: got is what the probes
   of the cycle started by async_setup answered (a later cycle can share the
   store with another one), and kept[j] says that the record of target j is
   still, and has been all along, what it was when this cycle started. *)
NewTask(id, n) ==
    [id |-> id, start |-> now, i |-> IF n = 0 THEN 0 ELSE 1,
     pc |-> IF n = 0 THEN "close" ELSE "get",
     got |-> <<>>,
     kept |-> [j \in 1..n |-> TRUE]]

(* What task u sees of a step that turns the store into st, su, lu. *)
Observe(u, st, su, lu) ==
    [u EXCEPT !.kept = [j \in DOMAIN u.kept |->
                          /\ u.kept[j]
                          /\ st[j] = states[j]
                          /\ su[j] = status[j]
                          /\ lu[j] = last_updated[j]]]

(* The tasks after task t took a step that left it as t2 and the store as
   st, su, lu. *)
Step(t, t2, st, su, lu) ==
    {Observe(u, st, su, lu) : u \in tasks \ {t}} \cup {Observe(t2, st, su, lu)}

Deadline(t) == t.start + CycleTimeout

Wrote(t, out) == IF t.id = 1 THEN [t EXCEPT !.got = Append(@, out)] ELSE t

Init ==
    /\ \E m \in 0..MaxTargets : \E n \in {k \in 0..MaxTargets : k - m \in -1..1} :
          /\ names = [k \in 1..n |-> k]
          /\ urls = [k \in 1..m |-> k]
    /\ hass_data = FALSE
    /\ states = <<>>
    /\ status = <<>>
    /\ last_updated = <<>>
    /\ tasks = {}
    /\ timers = <<>>
    /\ now = 0
    /\ cycles = 0
    /\ completed = 0
    /\ raised = 0
    /\ last_end = -1
    /\ event = Ev("init", NoTask, NoOutcome)

(* async_setup without its line 30. *)
async_create_task_omitted(t) == {}

(* Line 30: the coroutine is handed to the event loop as a task. *)
async_create_task(t) == {t}

(* async_setup, lines 25-31: the two lists are not compared; the data is
   stored and the first async_update is started as a task. *)
async_setup ==
    /\ ~hass_data
    /\ hass_data' = TRUE
    /\ states' = InitialStates(names, urls)
    /\ status' = InitialStatus(names, urls)
    /\ last_updated' = InitialLastUpdated(names, urls)
    /\ LET t == NewTask(1, Len(urls))
       IN /\ tasks' = async_create_task(t)
          /\ event' = Ev("setup", t, NoOutcome)
    /\ cycles' = 1
    /\ UNCHANGED <<names, urls, timers, now, completed, raised, last_end>>

(* Lines 88-94: the GET of target t.i answered with a status code.  states and
   status are written with no await between them; the exit of the `async with`
   of line 88 is awaited before line 95. *)
check_urls_response(t, code) ==
    /\ t.pc = "get"
    /\ states' = SetAt(states, t.i, ResponseState(code))
    /\ status' = SetAt(status, t.i, ResponseStatus(code))
    /\ LET out == [kind |-> "response", code |-> code, desc |-> ""]
       IN /\ tasks' = Step(t, [Wrote(t, out) EXCEPT !.pc = "release"],
                           states', status', last_updated)
          /\ event' = Ev("response", t, out)
    /\ UNCHANGED <<names, urls, hass_data, last_updated, timers, now, cycles,
                   completed, raised, last_end>>

(* Line 95, then the next turn of the loop of line 86. *)
check_urls_release(t) ==
    /\ t.pc = "release"
    /\ last_updated' = SetAt(last_updated, t.i, datetime_now(t))
    /\ tasks' = Step(t, AfterTarget(t), states, status, last_updated')
    /\ event' = Ev("release", t, NoOutcome)
    /\ UNCHANGED <<names, urls, hass_data, states, status, timers, now, cycles,
                   completed, raised, last_end>>

(* Lines 96-99: the GET raised aiohttp.ClientError. *)
check_urls_client_error(t, desc) ==
    /\ t.pc = "get"
    /\ states' = SetAt(states, t.i, "Offline")
    /\ status' = SetAt(status, t.i, desc)
    /\ last_updated' = StampOnError(last_updated, t.i, t)
    /\ LET out == [kind |-> "client_error", code |-> 0, desc |-> desc]
       IN /\ tasks' = Step(t, AfterTarget(Wrote(t, out)), states', status', last_updated')
          /\ event' = Ev("client_error", t, out)
    /\ UNCHANGED <<names, urls, hass_data, timers, now, cycles, completed, raised,
                   last_end>>

(* Lines 100-103: the GET raised asyncio.TimeoutError. *)
check_urls_timeout_error(t) ==
    /\ t.pc = "get"
    /\ states' = SetAt(states, t.i, "Offline")
    /\ status' = SetAt(status, t.i, "Timeout")
    /\ last_updated' = StampOnError(last_updated, t.i, t)
    /\ LET out == [kind |-> "timeout_error", code |-> 0, desc |-> ""]
       IN /\ tasks' = Step(t, AfterTarget(Wrote(t, out)), states', status', last_updated')
          /\ event' = Ev("timeout_error", t, out)
    /\ UNCHANGED <<names, urls, hass_data, timers, now, cycles, completed, raised,
                   last_end>>

(* Line 81 keeping one listener only. *)
TrackTimeIntervalReplacing(ts) == <<now + Interval>>

(* What line 81 leaves registered. *)
TrackTimeInterval(ts) == Append(ts, now + Interval)

(* The session closed (exit of line 85), _check_urls returned inside the
   timeout of line 79, and line 81 registers a listener that runs
   async_update every Interval. *)
async_update_return(t) ==
    /\ t.pc = "close"
    /\ tasks' = tasks \ {t}
    /\ timers' = TrackTimeInterval(timers)
    /\ completed' = completed + 1
    /\ last_end' = now
    /\ event' = Ev("return", t, NoOutcome)
    /\ UNCHANGED <<names, urls, hass_data, states, status, last_updated, now,
                   cycles, raised>>

(* The timeout of line 79 is due while the task waits in an await of
   _check_urls: the await is cancelled, no handler of _check_urls catches the
   cancellation, and async_update ends by asyncio.TimeoutError before line 81. *)
async_update_timeout(t) ==
    /\ now >= Deadline(t)
    /\ tasks' = tasks \ {t}
    /\ raised' = raised + 1
    /\ last_end' = now
    /\ event' = Ev("cycle_timeout", t, NoOutcome)
    /\ UNCHANGED <<names, urls, hass_data, states, status, last_updated, timers,
                   now, cycles, completed>>

(* A listener registered by line 81 is due: it starts async_update and is
   due again one Interval later. *)
timer_fires(k) ==
    /\ cycles < MaxCycles
    /\ now >= timers[k]
    /\ timers' = SetAt(timers, k, timers[k] + Interval)
    /\ cycles' = cycles + 1
    /\ LET t == NewTask(cycles + 1, Len(urls))
       IN /\ tasks' = tasks \cup {t}
          /\ event' = Ev("timer", t, NoOutcome)
    /\ UNCHANGED <<names, urls, hass_data, states, status, last_updated, now,
                   completed, raised, last_end>>

(* The times at which something is due. *)
Due ==
    {Deadline(t) : t \in tasks}
        \cup (IF cycles < MaxCycles THEN {timers[k] : k \in 1..Len(timers)} ELSE {})

(* Time passes, never beyond what is due next: by a Quantum while a cycle
   runs, to the next due time otherwise. *)
advance_time ==
    /\ Due # {}
    /\ now < Min(Due)
    /\ \E d \in {Min(Due)} \cup (IF tasks # {} THEN {now + Quantum} ELSE {}) :
          /\ d <= Min(Due)
          /\ now' = d
    /\ event' = Ev("advance", NoTask, NoOutcome)
    /\ UNCHANGED <<names, urls, hass_data, states, status, last_updated, tasks,
                   timers, cycles, completed, raised, last_end>>

Next ==
    \/ async_setup
    \/ \E t \in tasks, code \in StatusCodes : check_urls_response(t, code)
    \/ \E t \in tasks : check_urls_release(t)
    \/ \E t \in tasks, desc \in ErrorDescriptions : check_urls_client_error(t, desc)
    \/ \E t \in tasks : check_urls_timeout_error(t)
    \/ \E t \in tasks : async_update_return(t)
    \/ \E t \in tasks : async_update_timeout(t)
    \/ \E k \in 1..Len(timers) : timer_fires(k)
    \/ advance_time

Spec == Init /\ [][Next]_vars

(* What the last step raised out of async_update: the timeout of line 79
   turns the cancellation into asyncio.TimeoutError, and nothing catches it. *)
Raises(e) == IF e.kind = "cycle_timeout" THEN "asyncio.TimeoutError" ELSE "none"

(* The targets a cycle had not written when it stood as task record t. *)
Untried(t) == {j \in DOMAIN t.kept : j > t.i \/ (j = t.i /\ t.pc = "get")}

InitialRecord == [state |-> "Unknown", status |-> "", last_updated |-> datetime_min]

(***************************************************************************)
(* The claims.                                                             *)
(***************************************************************************)

(* C1: in every state, at every await of every cycle and with cycles
   interleaved, a target is Online exactly when its status is "OK". *)
C1_OnlineIffOK ==
    \A i \in DOMAIN states : (states[i] = "Online") <=> (status[i] = "OK")

C1_Witness ==
    /\ Cardinality(tasks) >= 2
    /\ \E t \in tasks : t.pc = "release" /\ states[t.i] = "Online"
    /\ \E j \in DOMAIN states : states[j] = "Offline"

(* C2: once one execution of async_update has returned, every target is
   Online or Offline and its last_updated is no longer datetime.min. *)
C2_CheckedAfterCompletedCycle ==
    completed >= 1 =>
        \A i \in DOMAIN states :
            /\ states[i] \in {"Online", "Offline"}
            /\ last_updated[i] # datetime_min

C2_Witness ==
    /\ event.kind = "return"
    /\ completed = 1
    /\ Len(urls) >= 2
    /\ \E i \in DOMAIN status : status[i] \in ErrorDescriptions \cup {"Timeout"}

(* The last step ended a GET that got no answer in time: the GET raised
   asyncio.TimeoutError, or the first GET of a cycle was still waiting when
   the 10 s of line 79, the only timeout the code sets, were over. *)
GetTimedOut ==
    \/ event.kind = "timeout_error"
    \/ /\ event.kind = "cycle_timeout"
       /\ event.task.pc = "get"
       /\ event.task.i = 1
       /\ now - event.task.start >= CycleTimeout

(* C3: a probe that times out leaves its target Offline with status
   "Timeout", and no exception leaves async_update. *)
C3_ProbeTimeoutRecorded ==
    GetTimedOut =>
        /\ states[event.task.i] = "Offline"
        /\ status[event.task.i] = "Timeout"
        /\ Raises(event) = "none"

(* C4: after a cycle ended by the cycle-level timeout, the first one
   included, a recurring schedule exists that starts a later cycle. *)
C4_ScheduleSurvivesCycleTimeout ==
    event.kind = "cycle_timeout" => Len(timers) >= 1

(* C5: when the cycle-level timeout ends a cycle, every target the cycle had
   not tried has kept the states, status and last_updated it had when the
   cycle started. *)
C5_UntriedKeepRecord ==
    event.kind = "cycle_timeout" =>
        \A j \in Untried(event.task) : event.task.kept[j]

(* C6: at most one execution of async_update is running at any time. *)
C6_AtMostOneCycle == Cardinality(tasks) <= 1

(* C7: a response with status 200 records Online/"OK", one with another code
   c records Offline/"HTTP c", a connection error records Offline with the
   error's description; and the cycle started at setup, with two urls that
   answered 200 and 500, ends with Online/"OK" and Offline/"HTTP 500". *)
C7_Classification ==
    /\ event.kind = "response" =>
          LET i == event.task.i
              c == event.outcome.code
          IN /\ c = 200 => states[i] = "Online" /\ status[i] = "OK"
             /\ c # 200 => states[i] = "Offline" /\ status[i] = "HTTP " \o ToString(c)
             /\ c = 404 => status[i] = "HTTP 404"
             /\ c = 500 => status[i] = "HTTP 500"
    /\ event.kind = "client_error" =>
          /\ states[event.task.i] = "Offline"
          /\ status[event.task.i] = event.outcome.desc
    /\ ( /\ event.kind = "return"
         /\ event.task.id = 1
         /\ Len(event.task.got) = 2
         /\ event.task.got[1].kind = "response" /\ event.task.got[1].code = 200
         /\ event.task.got[2].kind = "response" /\ event.task.got[2].code = 500 )
       => /\ states = <<"Online", "Offline">>
          /\ status = <<"OK", "HTTP 500">>

C7_Witness ==
    /\ event.kind = "return"
    /\ event.task.id = 1
    /\ Len(event.task.got) = 2
    /\ event.task.got[1].kind = "response" /\ event.task.got[1].code = 200
    /\ event.task.got[2].kind = "response" /\ event.task.got[2].code = 500

(* C8: with names and urls of different lengths, setup fails: no
   URLMonitorData is stored and no cycle is started. *)
C8_MismatchCreatesNoMonitor ==
    Len(names) # Len(urls) => (~hass_data /\ cycles = 0 /\ tasks = {})

(* C9: no step, of any cycle in any interleaving, lowers the last_updated of
   a target (the clock never goes back). *)
C9_LastUpdatedNonDecreasing ==
    [][\A i \in DOMAIN last_updated : last_updated'[i] >= last_updated[i]]_vars

C9_Witness ==
    /\ event.kind = "release"
    /\ Cardinality(tasks) >= 2
    /\ \E t \in tasks : t.id > event.task.id /\ t.i > event.task.i
    /\ last_updated[event.task.i] >= 2 * Interval

(* C10: from construction on, every index of sensors has an entry in states,
   status, last_updated and urls, the state and the icon read there are
   well formed, and while the first cycle has not touched a record it is
   Unknown, "" and datetime.min. *)
C10_WellFormedRecords ==
    hass_data =>
        \A i \in sensors :
            /\ i \in DOMAIN states
            /\ i \in DOMAIN status
            /\ i \in DOMAIN last_updated
            /\ i \in DOMAIN urls
            /\ state(i) \in {"Unknown", "Online", "Offline"}
            /\ icon(i) \in {"mdi:link", "mdi:link-off"}
            /\ extra_state_attributes(i).Status = status[i]
            /\ (event.kind = "setup" => Record(i) = InitialRecord)
            /\ \A t \in tasks : (t.id = 1 /\ t.kept[i]) => Record(i) = InitialRecord

C10_Witness ==
    /\ hass_data
    /\ Len(names) < Len(urls)
    /\ Len(urls) >= 2
    /\ \E t \in tasks : t.id = 1 /\ t.i = 2 /\ t.kept[2] /\ ~t.kept[1]

(* C11: async_setup itself starts the first execution of async_update: it
   starts when setup runs, with no timer registered, and every execution a
   timer starts is a later one. *)
C11_FirstCycleAtSetup ==
    /\ hass_data => cycles >= 1
    /\ event.kind = "setup" =>
          /\ timers = <<>>
          /\ \E t \in tasks : t.id = 1 /\ t.start = now /\ t.pc \in {"get", "close"}
    /\ \A t \in tasks : t.id = 1 => (t.start = 0 /\ timers = <<>>)
    /\ event.kind = "timer" => event.task.id >= 2

C11_Witness ==
    /\ event.kind = "setup"
    /\ now = 0
    /\ \E t \in tasks : t.id = 1 /\ t.pc = "get" /\ t.i = 1

(* C12: no state shows a record whose state and status a probe has written
   while its last_updated is still the old one; in particular no record is
   Online or Offline with last_updated datetime.min. *)
C12_NoTornRecord ==
    \A i \in DOMAIN states :
        states[i] \in {"Online", "Offline"} => last_updated[i] # datetime_min

(* C13: at most one recurring timer is registered, after any number of
   cycles. *)
C13_AtMostOneTimer == Len(timers) <= 1

(* The last step ended a probe by a failure: a response other than 200, a
   connection error, or a GET that got no answer in time. *)
ProbeFailed ==
    \/ event.kind = "response" /\ event.outcome.code # 200
    \/ event.kind = "client_error"
    \/ GetTimedOut

(* C14: a failed probe records its target Offline, its cycle goes on with the
   next target (or ends the loop after the last one), and no timer is lost. *)
C14_FailureDoesNotAbortCycle ==
    ProbeFailed =>
        /\ states[event.task.i] = "Offline"
        /\ \E t \in tasks :
              /\ t.id = event.task.id
              /\ \/ t.pc = "release" /\ t.i = event.task.i
                 \/ t.pc = "get" /\ t.i = event.task.i + 1
                 \/ t.pc = "close" /\ event.task.i = Len(urls)
        /\ Len(timers) = completed

(* The task of id in a set of tasks. *)
TaskOf(ts, id) == CHOOSE t \in ts : t.id = id

(* C15: a cycle probes and writes its targets in increasing order, each once:
   a step of a cycle either writes states and status of its target and stays
   there, or completes the record and moves to the next target; no other step
   moves a cycle, and a cycle starts at the first target. *)
C15_InOrderOncePerCycle ==
    [][ /\ \A t2 \in tasks' :
              (\A t \in tasks : t.id # t2.id) => (t2.i <= 1 /\ t2.pc \in {"get", "close"})
        /\ \A t \in tasks : \A t2 \in tasks' :
              (t2.id = t.id /\ event'.task.id # t.id) => (t2.i = t.i /\ t2.pc = t.pc)
        /\ event'.kind = "response" =>
              LET t == event'.task
                  t2 == TaskOf(tasks', t.id)
              IN /\ t.pc = "get"
                 /\ t2.i = t.i /\ t2.pc = "release"
                 /\ states'[t.i] \in {"Online", "Offline"}
        /\ event'.kind \in {"release", "client_error", "timeout_error"} =>
              LET t == event'.task
                  t2 == TaskOf(tasks', t.id)
              IN /\ states'[t.i] \in {"Online", "Offline"}
                 /\ last_updated'[t.i] = now
                 /\ t.i < Len(urls) => (t2.i = t.i + 1 /\ t2.pc = "get")
                 /\ t.i = Len(urls) => (t2.i = t.i /\ t2.pc = "close")
      ]_vars

C15_Witness ==
    /\ event.kind = "release"
    /\ event.task.i = 1
    /\ \E t \in tasks : t.id = event.task.id /\ t.i = 2 /\ t.pc = "get"
    /\ last_updated[1] = now
    /\ Cardinality(tasks) >= 2

(* C16: a cycle that a timer starts starts no earlier than one Interval
   after the cycle before it ended. *)
C16_IntervalFromEndOfCycle ==
    (event.kind = "timer" /\ last_end >= 0) => now >= last_end + Interval

(* C17: names, urls, states, status and last_updated have the same length
   from construction on. *)
C17_SameLength ==
    hass_data =>
        /\ Len(names) = Len(urls)
        /\ Len(states) = Len(urls)
        /\ Len(status) = Len(urls)
        /\ Len(last_updated) = Len(urls)

(* C18: no step takes a state that is not Unknown back to Unknown, and a
   step that changes a state writes Online or Offline. *)
C18_UnknownOnlyInitially ==
    [][\A i \in DOMAIN states :
          /\ states[i] # "Unknown" => states'[i] # "Unknown"
          /\ states'[i] # states[i] => states'[i] \in {"Online", "Offline"}]_vars

C18_Witness ==
    /\ event.kind = "response"
    /\ event.task.id >= 2
    /\ event.outcome.code = 500
    /\ states[event.task.i] = "Offline"
    /\ last_updated[event.task.i] # datetime_min

(* C19: the timers registered are as many as the executions of async_update
   that returned: one per return, none for a cycle ended by the timeout, and
   none is ever removed. *)
C19_TimersEqualReturnedCycles ==
    /\ Len(timers) = completed
    /\ completed + raised + Cardinality(tasks) = cycles

C19_Witness ==
    /\ event.kind = "cycle_timeout"
    /\ completed >= 2
    /\ raised >= 1
    /\ Len(timers) = completed
====
